---- MODULE Spec2Model ----
\* Model of the Juiceworks Discord bot's two slash-command handlers
\* (src/main.go): checkCommandCaller, addMember, makeChannel and
\* channelPermissions, run against a platform whose calls may each fail.
EXTENDS FiniteSets, Integers, Sequences, TLC

\* ---------------------------------------------------------------- bounds
MaxLen == 3
MaxRoles == 2
MaxOptions == 2

\* ------------------------------------------------------------- constants
JuiceworksGuildId == "1256628364987600977"
InternalChannelId == "1256628365771669556"
JuiceworksRoleId == "1257752490372370503"
ProjectCreatorRoleId == "1259262543034060830"
ServicesRoleId == "1260738526425780264"

MinNameLen == 2
MaxNameLen == 100

\* discordgo values the handlers pass through
ApplicationCommandOptionString == "String"
ApplicationCommandOptionUser == "User"
PermissionOverwriteTypeRole == "Role"
PermissionOverwriteTypeMember == "Member"
PermissionViewChannel == {"ViewChannel"}
PermissionSendMessages == {"SendMessages"}
MessageFlagsEphemeral == "Ephemeral"

\* ---------------------------------------------------------------- inputs
OtherGuildId == "other-guild"
OtherChannelId == "project-channel"
OtherRoleId == "other-role"
NewChannelId == "new-channel"
UserIds == {"user-1"}

\* Runes of a channel name: space, tab, an ASCII upper- and lower-case
\* letter and a two-byte upper-case letter (U+00C9, lower case U+00E9).
Alphabet == {" ", "\t", "A", "b", "U+00C9"}

SeqsUpTo(S, n) == UNION {[1..k -> S] : k \in 0..n}

Rep(c, n) == [k \in 1..n |-> c]

LongNames ==
    {Rep(c, n) : c \in {"b", "A"}, n \in {MaxNameLen - 1, MaxNameLen, MaxNameLen + 1}}
    \cup {Rep("U+00C9", n) : n \in {MaxNameLen \div 2, (MaxNameLen \div 2) + 1, MaxNameLen}}
    \cup {<<" ">> \o Rep("b", MaxNameLen) \o <<"\t">>,
          Rep("b", MaxNameLen - 1) \o <<" ", "A">>}

Names == SeqsUpTo(Alphabet, MaxLen) \cup LongNames

StringOption(v) == [Type |-> ApplicationCommandOptionString, StringValue |-> v, UserID |-> ""]
UserOption(u) == [Type |-> ApplicationCommandOptionUser, StringValue |-> <<>>, UserID |-> u]

FirstOptions == {StringOption(v) : v \in Names} \cup {UserOption(u) : u \in UserIds}
ExtraOptions == {StringOption(<<"b", "b">>)} \cup {UserOption(u) : u \in UserIds}

OptionLists ==
    {<<>>} \cup {<<f>> \o rest : f \in FirstOptions, rest \in SeqsUpTo(ExtraOptions, MaxOptions - 1)}

NilMember == [IsNil |-> TRUE, Roles |-> <<>>]
Members ==
    {NilMember} \cup
    {[IsNil |-> FALSE, Roles |-> r] : r \in SeqsUpTo({JuiceworksRoleId, OtherRoleId}, MaxRoles)}

TargetRoleLists == SeqsUpTo({ServicesRoleId, ProjectCreatorRoleId}, MaxRoles)

CommandNames == {"make-channel", "add-member", "ping"}

Interactions ==
    [Name : CommandNames,
     GuildID : {JuiceworksGuildId, OtherGuildId},
     Member : Members,
     ChannelID : {InternalChannelId, OtherChannelId},
     Options : OptionLists]

NoInteraction ==
    [Name |-> "", GuildID |-> "", Member |-> NilMember, ChannelID |-> "", Options |-> <<>>]

\* ----------------------------------------------------------------- state
VARIABLES
    pc,          \* position of the handler: idle, check, ..., done
    i,           \* the interaction being handled
    user,        \* addMember: options[0].UserValue(s).ID
    member,      \* addMember: roles returned by s.GuildMember
    channelName, \* makeChannel: the cleaned-up channel name
    channel,     \* makeChannel: the channel GuildChannelCreate returned
    permIdx,     \* makeChannel: index into permissionsToSet
    calls,       \* platform calls made for this interaction, in order
    responses,   \* InteractionRespond calls made for this interaction
    logs,        \* log lines written for this interaction
    overwrites   \* platform: permission overwrites in force

vars == <<pc, i, user, member, channelName, channel, permIdx, calls, responses, logs, overwrites>>

NoChannel == [ID |-> "", Name |-> <<>>]

\* ------------------------------------------------------------- functions
commandHandlers == {"make-channel", "add-member"}

\* strings.TrimSpace
IsSpace(c) == c \in {" ", "\t"}

RECURSIVE TrimLeft(_)
TrimLeft(s) == IF s # <<>> /\ IsSpace(Head(s)) THEN TrimLeft(Tail(s)) ELSE s

RECURSIVE TrimRight(_)
TrimRight(s) ==
    IF s # <<>> /\ IsSpace(s[Len(s)]) THEN TrimRight(SubSeq(s, 1, Len(s) - 1)) ELSE s

TrimSpace(s) == TrimRight(TrimLeft(s))

\* strings.ToLower
ToLowerRune(c) ==
    CASE c = "A" -> "a"
      [] c = "U+00C9" -> "U+00E9"
      [] OTHER -> c

ToLower(s) == [k \in 1..Len(s) |-> ToLowerRune(s[k])]

\* strings.ReplaceAll(s, " ", "-")
ReplaceAll(s) == [k \in 1..Len(s) |-> IF s[k] = " " THEN "-" ELSE s[k]]

\* len(string): the number of UTF-8 bytes
RuneLen(c) == IF c \in {"U+00C9", "U+00E9"} THEN 2 ELSE 1

RECURSIVE len(_)
len(s) == IF s = <<>> THEN 0 ELSE RuneLen(Head(s)) + len(Tail(s))

CleanName(name) == ReplaceAll(ToLower(TrimSpace(name)))

NameLengthBad(name) == len(name) < MinNameLen \/ len(name) > MaxNameLen

\* the linear scans over a role list
RECURSIVE HasRole(_, _)
HasRole(roles, id) ==
    IF roles = <<>> THEN FALSE
    ELSE IF Head(roles) = id THEN TRUE
    ELSE HasRole(Tail(roles), id)

OutsideServerGuildOnly(in) == in.GuildID # JuiceworksGuildId /\ in.Member.IsNil
OutsideServer(in) == in.GuildID # JuiceworksGuildId \/ in.Member.IsNil

callerHasJuiceworksRole(in) == HasRole(in.Member.Roles, JuiceworksRoleId)

InInternalChannelNever(in) == FALSE
InInternalChannel(in) == in.ChannelID = InternalChannelId

OptionsBadExactlyOne(options, type) == Len(options) # 1 \/ options[1].Type # type
OptionsBad(options, type) == Len(options) = 0 \/ options[1].Type # type

isServiceProviderNever(roles) == FALSE
isServiceProviderWrongRole(roles) == HasRole(roles, ProjectCreatorRoleId)
isServiceProvider(roles) == HasRole(roles, ServicesRoleId)

Overwrite(ch, target, type, allow, deny) ==
    [channelID |-> ch, targetID |-> target, targetType |-> type, allow |-> allow, deny |-> deny]

permissionsToSetSwapped(channelID) ==
    << Overwrite(channelID, JuiceworksGuildId, PermissionOverwriteTypeRole,
                 {}, PermissionViewChannel),
       Overwrite(channelID, JuiceworksRoleId, PermissionOverwriteTypeRole,
                 PermissionViewChannel \cup PermissionSendMessages, {}) >>
permissionsToSet(channelID) ==
    << Overwrite(channelID, JuiceworksRoleId, PermissionOverwriteTypeRole,
                 PermissionViewChannel \cup PermissionSendMessages, {}),
       Overwrite(channelID, JuiceworksGuildId, PermissionOverwriteTypeRole,
                 {}, PermissionViewChannel) >>

addMemberPermission(in, u) ==
    Overwrite(in.ChannelID, u, PermissionOverwriteTypeMember,
              PermissionViewChannel \cup PermissionSendMessages, {})

\* -------------------------------------------------- platform call records
NoOverwrite == Overwrite("", "", "", {}, {})

Call(op, a, b, name, ow, ok) ==
    [op |-> op, a |-> a, b |-> b, name |-> name, overwrite |-> ow, ok |-> ok]

GuildMemberCall(guild, u, ok) == Call("GuildMember", guild, u, <<>>, NoOverwrite, ok)
GuildMemberRoleAddCall(guild, u, role, ok) == Call("GuildMemberRoleAdd", u, role, <<>>, NoOverwrite, ok)
GuildChannelCreateCall(guild, name, ok) == Call("GuildChannelCreate", guild, "", name, NoOverwrite, ok)
ChannelPermissionSetCall(ow, ok) == Call("ChannelPermissionSet", ow.channelID, ow.targetID, <<>>, ow, ok)

\* s.InteractionRespond wrapped in logResponseErr
Response(content) == [Content |-> content, Flags |-> MessageFlagsEphemeral]

logResponseErr(lg, ok) ==
    IF ok THEN lg ELSE Append(lg, "Error responding to interaction")

\* ------------------------------------------------------------------ Init
Init ==
    /\ pc = "idle"
    /\ i = NoInteraction
    /\ user = ""
    /\ member = <<>>
    /\ channelName = <<>>
    /\ channel = NoChannel
    /\ permIdx = 1
    /\ calls = <<>>
    /\ responses = <<>>
    /\ logs = <<>>
    /\ overwrites = {}

\* --------------------------------------------------------------- actions
\* the InteractionCreate handler: look the command up and call its handler
Dispatch ==
    /\ pc = "idle"
    /\ \E in \in Interactions :
        /\ i' = in
        /\ pc' = IF in.Name \in commandHandlers THEN "check" ELSE "done"
    /\ UNCHANGED <<user, member, channelName, channel, permIdx, calls, responses, logs, overwrites>>

\* the handler has returned; the next interaction starts from a clean record
Return ==
    /\ pc = "done"
    /\ pc' = "idle"
    /\ i' = NoInteraction
    /\ user' = ""
    /\ member' = <<>>
    /\ channelName' = <<>>
    /\ channel' = NoChannel
    /\ permIdx' = 1
    /\ calls' = <<>>
    /\ responses' = <<>>
    /\ logs' = <<>>
    /\ overwrites' = {}

\* checkCommandCaller, and the handler's return when it fails
CheckCommandCaller ==
    /\ pc = "check"
    /\ \E ok \in BOOLEAN :
        IF OutsideServer(i)
        THEN /\ responses' = Append(responses,
                    Response("This command can only be used in the Juiceworks Discord server."))
             /\ logs' = Append(logResponseErr(logs, ok), "Command caller check failed")
             /\ pc' = "done"
        ELSE IF ~callerHasJuiceworksRole(i)
        THEN /\ responses' = Append(responses,
                    Response("This command can only be used by Juiceworks members."))
             /\ logs' = Append(logResponseErr(logs, ok), "Command caller check failed")
             /\ pc' = "done"
        ELSE /\ ok
             /\ UNCHANGED <<responses, logs>>
             /\ pc' = IF i.Name = "add-member" THEN "internal" ELSE "mcOptions"
    /\ UNCHANGED <<i, user, member, channelName, channel, permIdx, calls, overwrites>>

\* channelPermissions: one ChannelPermissionSet call; on failure it responds,
\* logs and returns the error
channelPermissionsCalls(cs, cps, ok) == Append(cs, ChannelPermissionSetCall(cps, ok))

channelPermissionsResponses(rs, ok) ==
    IF ok THEN rs ELSE Append(rs, Response("Error setting channel permissions: "))

channelPermissionsLogs(lg, ok, respOk) ==
    IF ok THEN lg
    ELSE Append(logResponseErr(lg, respOk), "Error setting channel permissions")

channelPermissionsOverwrites(ows, cps, ok) ==
    IF ok
    THEN {o \in ows : ~(o.channelID = cps.channelID /\ o.targetID = cps.targetID)} \cup {cps}
    ELSE ows

\* addMember: prevent adding new members to the internal channel
AddMemberInternalChannel ==
    /\ pc = "internal"
    /\ \E ok \in BOOLEAN :
        IF InInternalChannel(i)
        THEN /\ responses' = Append(responses,
                    Response("This command cannot be used in the internal channel."))
             /\ logs' = logResponseErr(logs, ok)
             /\ pc' = "done"
        ELSE /\ ok
             /\ UNCHANGED <<responses, logs>>
             /\ pc' = "amOptions"
    /\ UNCHANGED <<i, user, member, channelName, channel, permIdx, calls, overwrites>>

\* addMember: verify the command options
AddMemberOptions ==
    /\ pc = "amOptions"
    /\ \E ok \in BOOLEAN :
        IF OptionsBad(i.Options, ApplicationCommandOptionUser)
        THEN /\ responses' = Append(responses, Response("This command requires a user."))
             /\ logs' = logResponseErr(logs, ok)
             /\ pc' = "done"
             /\ user' = user
        ELSE /\ ok
             /\ UNCHANGED <<responses, logs>>
             /\ user' = i.Options[1].UserID
             /\ pc' = "amFetch"
    /\ UNCHANGED <<i, member, channelName, channel, permIdx, calls, overwrites>>

\* addMember: get the user's roles
AddMemberGuildMember ==
    /\ pc = "amFetch"
    /\ \/ \E roles \in TargetRoleLists :
            /\ calls' = Append(calls, GuildMemberCall(JuiceworksGuildId, user, TRUE))
            /\ member' = roles
            /\ pc' = "amRole"
            /\ UNCHANGED <<responses, logs>>
       \/ \E ok \in BOOLEAN :
            /\ calls' = Append(calls, GuildMemberCall(JuiceworksGuildId, user, FALSE))
            /\ responses' = Append(responses, Response("Error reading member roles: "))
            /\ logs' = logResponseErr(Append(logs, "Error reading member roles"), ok)
            /\ pc' = "done"
            /\ member' = member
    /\ UNCHANGED <<i, user, channelName, channel, permIdx, overwrites>>

\* addMember: grant the Project Creator role unless the user is a service provider
AddMemberRole ==
    /\ pc = "amRole"
    /\ IF isServiceProvider(member)
       THEN /\ pc' = "amPerm"
            /\ UNCHANGED <<calls, responses, logs>>
       ELSE \/ /\ calls' = Append(calls,
                    GuildMemberRoleAddCall(JuiceworksGuildId, user, ProjectCreatorRoleId, TRUE))
               /\ pc' = "amPerm"
               /\ UNCHANGED <<responses, logs>>
            \/ \E ok \in BOOLEAN :
               /\ calls' = Append(calls,
                    GuildMemberRoleAddCall(JuiceworksGuildId, user, ProjectCreatorRoleId, FALSE))
               /\ responses' = Append(responses,
                    Response("Error granting Project Creator role: "))
               /\ logs' = logResponseErr(Append(logs, "Error granting Project Creator role"), ok)
               /\ pc' = "done"
    /\ UNCHANGED <<i, user, member, channelName, channel, permIdx, overwrites>>

\* addMember: add the user to the channel the command was called from
AddMemberPermission ==
    /\ pc = "amPerm"
    /\ \E ok \in BOOLEAN, respOk1 \in BOOLEAN, respOk2 \in BOOLEAN :
        LET cps == addMemberPermission(i, user) IN
        /\ ok => (respOk1 /\ respOk2)
        /\ calls' = channelPermissionsCalls(calls, cps, ok)
        /\ overwrites' = channelPermissionsOverwrites(overwrites, cps, ok)
        /\ IF ok
           THEN /\ responses' = channelPermissionsResponses(responses, ok)
                /\ logs' = channelPermissionsLogs(logs, ok, respOk1)
                /\ pc' = "amRespond"
           ELSE /\ responses' = Append(channelPermissionsResponses(responses, ok),
                        Response("Error adding member to channel: "))
                /\ logs' = logResponseErr(
                        Append(channelPermissionsLogs(logs, ok, respOk1),
                               "Error adding member to channel"), respOk2)
                /\ pc' = "done"
    /\ UNCHANGED <<i, user, member, channelName, channel, permIdx>>

\* addMember: respond to the interaction
AddMemberRespond ==
    /\ pc = "amRespond"
    /\ \E ok \in BOOLEAN :
        /\ responses' = Append(responses, Response("Added %s to the channel."))
        /\ logs' = logResponseErr(Append(logs, "Added %s (%s) to channel %s."), ok)
    /\ pc' = "done"
    /\ UNCHANGED <<i, user, member, channelName, channel, permIdx, calls, overwrites>>

\* makeChannel: verify the command options
MakeChannelOptions ==
    /\ pc = "mcOptions"
    /\ \E ok \in BOOLEAN :
        IF OptionsBad(i.Options, ApplicationCommandOptionString)
        THEN /\ responses' = Append(responses, Response("This command requires a channel name."))
             /\ logs' = logResponseErr(logs, ok)
             /\ pc' = "done"
        ELSE /\ ok
             /\ UNCHANGED <<responses, logs>>
             /\ pc' = "mcName"
    /\ UNCHANGED <<i, user, member, channelName, channel, permIdx, calls, overwrites>>

\* makeChannel: clean up the channel name and check its length
MakeChannelName ==
    /\ pc = "mcName"
    /\ channelName' = CleanName(i.Options[1].StringValue)
    /\ \E ok \in BOOLEAN :
        IF NameLengthBad(channelName')
        THEN /\ responses' = Append(responses,
                    Response("Channel name must be between 2 and 100 characters."))
             /\ logs' = logResponseErr(logs, ok)
             /\ pc' = "done"
        ELSE /\ ok
             /\ UNCHANGED <<responses, logs>>
             /\ pc' = "mcCreate"
    /\ UNCHANGED <<i, user, member, channel, permIdx, calls, overwrites>>

\* makeChannel: create the channel
MakeChannelCreate ==
    /\ pc = "mcCreate"
    /\ \/ /\ calls' = Append(calls, GuildChannelCreateCall(JuiceworksGuildId, channelName, TRUE))
          /\ channel' = [ID |-> NewChannelId, Name |-> channelName]
          /\ pc' = "mcPerm"
          /\ UNCHANGED <<responses, logs>>
       \/ \E ok \in BOOLEAN :
          /\ calls' = Append(calls, GuildChannelCreateCall(JuiceworksGuildId, channelName, FALSE))
          /\ responses' = Append(responses, Response("Error creating channel: "))
          /\ logs' = logResponseErr(logs, ok)
          /\ pc' = "done"
          /\ channel' = channel
    /\ permIdx' = 1
    /\ UNCHANGED <<i, user, member, channelName, overwrites>>

\* makeChannel: one iteration of the loop over permissionsToSet
MakeChannelPermission ==
    /\ pc = "mcPerm"
    /\ \E ok \in BOOLEAN, respOk \in BOOLEAN :
        LET p == permissionsToSet(channel.ID)[permIdx] IN
        /\ ok => respOk
        /\ calls' = channelPermissionsCalls(calls, p, ok)
        /\ overwrites' = channelPermissionsOverwrites(overwrites, p, ok)
        /\ responses' = channelPermissionsResponses(responses, ok)
        /\ logs' = channelPermissionsLogs(logs, ok, respOk)
        /\ IF ~ok
           THEN pc' = "done" /\ permIdx' = permIdx
           ELSE IF permIdx < Len(permissionsToSet(channel.ID))
           THEN pc' = "mcPerm" /\ permIdx' = permIdx + 1
           ELSE pc' = "mcRespond" /\ permIdx' = permIdx
    /\ UNCHANGED <<i, user, member, channelName, channel>>

\* makeChannel: respond to the interaction
MakeChannelRespond ==
    /\ pc = "mcRespond"
    /\ \E ok \in BOOLEAN :
        /\ responses' = Append(responses, Response("Created channel: #"))
        /\ logs' = logResponseErr(Append(logs, "Created channel"), ok)
    /\ pc' = "done"
    /\ UNCHANGED <<i, user, member, channelName, channel, permIdx, calls, overwrites>>

Next ==
    \/ Dispatch
    \/ CheckCommandCaller
    \/ AddMemberInternalChannel
    \/ AddMemberOptions
    \/ AddMemberGuildMember
    \/ AddMemberRole
    \/ AddMemberPermission
    \/ AddMemberRespond
    \/ MakeChannelOptions
    \/ MakeChannelName
    \/ MakeChannelCreate
    \/ MakeChannelPermission
    \/ MakeChannelRespond
    \/ Return

Spec == Init /\ [][Next]_vars

\* ---------------------------------------------------------------- claims
Range(s) == {s[k] : k \in 1..Len(s)}

CallsOf(op) == SelectSeq(calls, LAMBDA c : c.op = op)
PermCalls == CallsOf("ChannelPermissionSet")
GrantCalls == CallsOf("GuildMemberRoleAdd")
CreateCalls == CallsOf("GuildChannelCreate")

ServerScopeMessage == Response("This command can only be used in the Juiceworks Discord server.")
MembershipMessage == Response("This command can only be used by Juiceworks members.")
InternalChannelMessage == Response("This command cannot be used in the internal channel.")
RequiresUserMessage == Response("This command requires a user.")
RequiresNameMessage == Response("This command requires a channel name.")
NameLengthMessage == Response("Channel name must be between 2 and 100 characters.")
CreatedChannelMessage == Response("Created channel: #")
AddedMessage == Response("Added %s to the channel.")

Handled == i.Name \in commandHandlers /\ pc \notin {"idle", "check"}

InConfiguredGuild == i.GuildID = JuiceworksGuildId /\ ~i.Member.IsNil
CallerAuthorized == InConfiguredGuild /\ JuiceworksRoleId \in Range(i.Member.Roles)

\* the interaction got as far as the handler's option check
ReachedOptions ==
    /\ Handled
    /\ CallerAuthorized
    /\ i.Name = "add-member" => (i.ChannelID # InternalChannelId /\ pc # "internal")

ExpectedType ==
    IF i.Name = "add-member" THEN ApplicationCommandOptionUser ELSE ApplicationCommandOptionString
RequiresMessage ==
    IF i.Name = "add-member" THEN RequiresUserMessage ELSE RequiresNameMessage

AllowCommunityRole ==
    Overwrite(NewChannelId, JuiceworksRoleId, PermissionOverwriteTypeRole,
              {"ViewChannel", "SendMessages"}, {})
DenyDefaultRole ==
    Overwrite(NewChannelId, JuiceworksGuildId, PermissionOverwriteTypeRole, {}, {"ViewChannel"})

\* C1: a handler calls the platform's respond operation at most once for an
\* interaction, whatever external calls succeed or fail.
C1_AtMostOneResponse == Len(responses) <= 1

\* C2: the guard lets a handler proceed iff the guild is the configured one,
\* the member is present and holds the community role; a wrong guild or absent
\* member gets only the server-scope message, a missing community role only
\* the membership message, and a rejected interaction makes no external call.
C2_AuthorizationGuard ==
    Handled =>
        /\ CallerAuthorized <=>
             ~(responses # <<>> /\ responses[1] \in {ServerScopeMessage, MembershipMessage})
        /\ ~InConfiguredGuild =>
             (pc = "done" /\ responses = <<ServerScopeMessage>> /\ calls = <<>>)
        /\ (InConfiguredGuild /\ ~CallerAuthorized) =>
             (pc = "done" /\ responses = <<MembershipMessage>> /\ calls = <<>>)

C2_Witness ==
    /\ Handled
    /\ InConfiguredGuild
    /\ ~CallerAuthorized
    /\ responses = <<MembershipMessage>>

\* C3: a make-channel run that answers 'Created channel' made exactly two
\* permission-set calls on the new channel, community-role allow view+send then
\* default-role deny view; a failed create makes no permission-set call, and a
\* failed first permission-set call is the last one and no success is sent.
C3_TwoOverwritesInOrder ==
    i.Name = "make-channel" =>
        /\ (\E k \in 1..Len(responses) : responses[k] = CreatedChannelMessage) =>
             PermCalls = << ChannelPermissionSetCall(AllowCommunityRole, TRUE),
                            ChannelPermissionSetCall(DenyDefaultRole, TRUE) >>
        /\ (\E k \in 1..Len(calls) : calls[k].op = "GuildChannelCreate" /\ ~calls[k].ok) =>
             PermCalls = <<>>
        /\ (PermCalls # <<>> /\ ~PermCalls[1].ok) =>
             /\ Len(PermCalls) = 1
             /\ \A k \in 1..Len(responses) : responses[k] # CreatedChannelMessage

C3_Witness ==
    /\ i.Name = "make-channel"
    /\ pc = "done"
    /\ Len(PermCalls) = 2
    /\ responses = <<CreatedChannelMessage>>

\* C4: in add-member with a target lacking the service-provider role, the
\* project-creator grant call precedes any permission-set call; a failed grant
\* means no permission-set call and no 'Added' response.
C4_GrantBeforeOverwrite ==
    (i.Name = "add-member" /\ pc \in {"amPerm", "amRespond", "done"}
       /\ CallsOf("GuildMember") # <<>> /\ calls[1].ok
       /\ ServicesRoleId \notin Range(member)) =>
        /\ \A k \in 1..Len(calls) : calls[k].op = "ChannelPermissionSet" =>
             \E j \in 1..(k - 1) :
                /\ calls[j].op = "GuildMemberRoleAdd"
                /\ calls[j].a = user
                /\ calls[j].b = ProjectCreatorRoleId
        /\ (GrantCalls # <<>> /\ ~GrantCalls[1].ok) =>
             /\ PermCalls = <<>>
             /\ \A k \in 1..Len(responses) : responses[k] # AddedMessage

C4_Witness ==
    /\ i.Name = "add-member"
    /\ pc = "done"
    /\ ServicesRoleId \notin Range(member)
    /\ Len(calls) = 3
    /\ calls[2].op = "GuildMemberRoleAdd"
    /\ calls[3].op = "ChannelPermissionSet"
    /\ responses = <<AddedMessage>>

\* C5: in add-member with a target holding the service-provider role, no
\* project-creator grant call is made, yet the permission-set call granting the
\* target view+send on the invoking channel is made.
C5_ServiceProviderSkipsGrant ==
    (i.Name = "add-member" /\ ServicesRoleId \in Range(member)) =>
        /\ GrantCalls = <<>>
        /\ pc \in {"amRespond", "done"} =>
             /\ Len(PermCalls) = 1
             /\ PermCalls[1].overwrite =
                    Overwrite(i.ChannelID, i.Options[1].UserID, PermissionOverwriteTypeMember,
                              {"ViewChannel", "SendMessages"}, {})

C5_Witness ==
    /\ i.Name = "add-member"
    /\ ServicesRoleId \in Range(member)
    /\ pc = "done"
    /\ Len(PermCalls) = 1
    /\ PermCalls[1].ok

\* C6: an add-member interaction in the internal channel is always rejected:
\* no member fetch, role grant or permission-set call, and no success response.
C6_InternalChannelRejected ==
    (i.Name = "add-member" /\ i.ChannelID = InternalChannelId) =>
        /\ calls = <<>>
        /\ \A k \in 1..Len(responses) : responses[k] # AddedMessage
        /\ pc \in {"idle", "check", "internal", "done"}
        /\ pc = "done" =>
             /\ Len(responses) = 1
             /\ responses[1] \in {ServerScopeMessage, MembershipMessage, InternalChannelMessage}

C6_Witness ==
    /\ i.Name = "add-member"
    /\ i.ChannelID = InternalChannelId
    /\ CallerAuthorized
    /\ i.Options # <<>>
    /\ pc = "done"
    /\ responses = <<InternalChannelMessage>>

\* C7 as stated: both handlers reject with their 'requires' message, before any
\* external call, whenever the number of options is not exactly one or the
\* option has the wrong type.
C7_ExactlyOneOption ==
    (ReachedOptions /\ pc = "done"
       /\ (Len(i.Options) # 1 \/ i.Options[1].Type # ExpectedType)) =>
        /\ responses = <<RequiresMessage>>
        /\ calls = <<>>

\* C7 amended: both handlers reject with their 'requires' message, before any
\* external call, exactly when the option list is empty or its first option has
\* the wrong type; options after the first are ignored.
C7_FirstOptionChecked ==
    (ReachedOptions /\ pc = "done") =>
        /\ (Len(i.Options) = 0 \/ i.Options[1].Type # ExpectedType) <=>
             (responses # <<>> /\ responses[1] = RequiresMessage)
        /\ (Len(i.Options) = 0 \/ i.Options[1].Type # ExpectedType) =>
             (responses = <<RequiresMessage>> /\ calls = <<>>)

C7_Witness ==
    /\ ReachedOptions
    /\ pc = "done"
    /\ Len(i.Options) = 2
    /\ i.Options[1].Type # ExpectedType
    /\ i.Options[2].Type = ExpectedType
    /\ responses = <<RequiresMessage>>

\* C8: for a name that passes the guard and option checks, make-channel calls
\* channel create with the normalized name iff that name's length in characters
\* is between 2 and 100, and otherwise rejects with the length message.
C8_LengthInCharacters ==
    (i.Name = "make-channel" /\ ReachedOptions /\ pc = "done"
       /\ Len(i.Options) > 0 /\ i.Options[1].Type = ApplicationCommandOptionString) =>
        LET n == CleanName(i.Options[1].StringValue) IN
        IF Len(n) >= 2 /\ Len(n) <= 100
        THEN Len(CreateCalls) = 1 /\ CreateCalls[1].name = n
        ELSE CreateCalls = <<>> /\ responses = <<NameLengthMessage>>

\* C9: every rejected or failed path of either handler produces exactly one
\* ephemeral response and at most one log line (read on the runs in which every
\* response was delivered, so that no delivery-failure line is counted).
C9_OneResponseOneLogLine ==
    (i.Name \in commandHandlers /\ pc = "done"
       /\ (\A k \in 1..Len(responses) : responses[k] \notin {CreatedChannelMessage, AddedMessage})
       /\ (\A k \in 1..Len(logs) : logs[k] # "Error responding to interaction")) =>
        /\ Len(responses) = 1
        /\ responses[1].Flags = "Ephemeral"
        /\ Len(logs) <= 1

\* C10: once a make-channel run has returned, every channel it created carries
\* the deny-view overwrite for the guild's default role.
C10_CreatedChannelsPrivate ==
    (i.Name = "make-channel" /\ pc = "done"
       /\ \E k \in 1..Len(calls) : calls[k].op = "GuildChannelCreate" /\ calls[k].ok) =>
        DenyDefaultRole \in overwrites

====
